---- MODULE Spec2Model ----
(***************************************************************************)
(* A model of autoimpute's SingleImputer (the orchestrator) and of the     *)
(* DefaultSingleImputer it delegates to.                                   *)
(*                                                                         *)
(* A table (pandas DataFrame) is a sequence of columns; a column is a      *)
(* record [name, dtype, vals] whose vals has one cell per row.  A cell is  *)
(* a record [k, n, d, s]: k is "na" for a missing value, "num" for the     *)
(* rational n/d, "str" for the string s and "time" for the timestamp s.    *)
(*                                                                         *)
(* fit and transform are decorated with check_nan_columns                  *)
(* (single_imputer.py lines 155 and 213), which is not part of the files   *)
(* modelled here: every table handed to an operation is one the decorator  *)
(* lets through, so every column holds at least one observed value.        *)
(***************************************************************************)
EXTENDS Integers, Sequences, FiniteSets, TLC

\* ------------------------------------------------------------- bounds --
\* Rows of a table.
NRows == 2
\* Numeric cells of an input table are drawn from 1..MaxNum.
MaxNum == 1

\* ------------------------------------------------------------- inputs --
\* Column names a table may carry, in any order.
Names == <<"A", "B">>
NameSet == {Names[i] : i \in 1..Len(Names)}
Dtypes == {"num", "str", "time"}
\* The data types tried under each name: numeric under both, textual under
\* the first and a timestamp type under the others.
DtypesOf(nm) == IF nm = Names[1] THEN {"num", "str"} ELSE {"num", "time"}

NA == [k |-> "na", n |-> 0, d |-> 1, s |-> ""]

RECURSIVE GCD(_, _)
GCD(a, b) == IF b = 0 THEN a ELSE GCD(b, a % b)

\* The rational n/d (d > 0, n >= 0) in lowest terms.
NumCell(n, d) ==
    LET g == GCD(n, d)
    IN  [k |-> "num", n |-> n \div g, d |-> d \div g, s |-> ""]

StrCell(x) == [k |-> "str", n |-> 0, d |-> 1, s |-> x]
TimeCell(x) == [k |-> "time", n |-> 0, d |-> 1, s |-> x]

CellsOf(dtype) ==
    CASE dtype = "num" -> {NumCell(i, 1) : i \in 1..MaxNum}
      [] dtype = "str" -> {StrCell("x")}
      [] OTHER -> {TimeCell("t")}

RowIx == 1..NRows

\* X[column].isnull(), cell by cell.
IsNull(c) == c.k = "na"

ColumnsNamed(nm) ==
    { [name |-> nm, dtype |-> dt, vals |-> v] :
        dt \in Dtypes, v \in [RowIx -> UNION {CellsOf(t) : t \in Dtypes} \cup {NA}] }

WellTyped(col) ==
    /\ col.dtype \in DtypesOf(col.name)
    /\ \A i \in RowIx : col.vals[i] \in CellsOf(col.dtype) \cup {NA}
    /\ \E i \in RowIx : ~IsNull(col.vals[i])

\* The columns a table may hold under a name.
Columns(nm) == { c \in ColumnsNamed(nm) : WellTyped(c) }

\* X.columns.tolist()
ColNames(X) == [i \in 1..Len(X) |-> X[i].name]
ColNameSet(X) == {X[i].name : i \in 1..Len(X)}

\* X[column]
Col(X, nm) == X[CHOOSE i \in 1..Len(X) : X[i].name = nm]

\* The position of a name in Names.
Pos(nm) == CHOOSE i \in 1..Len(Names) : Names[i] = nm

\* The tables handed to fit and transform: one to Len(Names) columns of
\* distinct names, in the order of Names.
Tables ==
    UNION { { t \in [1..len -> UNION {Columns(nm) : nm \in NameSet}] :
                \A i, j \in 1..len : i < j => Pos(t[i].name) < Pos(t[j].name) } :
            len \in 1..Len(Names) }

\* ----------------------------------------------------------- registry --
\* SingleImputer.strategies: strategy name -> imputer class.
strategies ==
    [ default     |-> "DefaultSingleImputer",
      mean        |-> "MeanImputer",
      median      |-> "MedianImputer",
      mode        |-> "ModeImputer",
      random      |-> "RandomImputer",
      norm        |-> "NormImputer",
      categorical |-> "CategoricalImputer",
      interpolate |-> "InterpolateImputer" ]

strat_names == DOMAIN strategies

\* Strategies restricted to numeric columns (spec 4.1, compatibility table).
NumericOnly == {"mean", "median", "norm", "interpolate"}

Compatible(method, dtype) == method \in NumericOnly => dtype = "num"

\* --------------------------------------------- strategy specifications --
\* A specification is a single name (kind "str"), an ordered sequence of
\* names (kind "seq") or a mapping from column names to names (kind "map").
StrSpec(nm) == [kind |-> "str", name |-> nm, names |-> <<>>, map |-> <<>>]
SeqSpec(nms) == [kind |-> "seq", name |-> "", names |-> nms, map |-> <<>>]
MapSpec(m) == [kind |-> "map", name |-> "", names |-> <<>>, map |-> m]

\* Names tried as a single strategy: the registry and one name outside it.
StrNames == strat_names \cup {"bogus"}
\* Names tried inside sequences and mappings.
SeqNames == {"mean", "mode", "bogus"}

Specs ==
    {StrSpec(nm) : nm \in StrNames}
    \cup UNION { {SeqSpec(q) : q \in [1..len -> SeqNames]} : len \in 1..Len(Names) }
    \cup UNION { {MapSpec(m) : m \in [K -> SeqNames]} : K \in SUBSET NameSet }

\* BaseImputer.check_strategy_allowed(strat_names, s): every name the
\* specification uses is a registry name.
check_strategy_allowed(names, s) ==
    CASE s.kind = "str" -> s.name \in names
      [] s.kind = "seq" -> \A i \in 1..Len(s.names) : s.names[i] \in names
      [] OTHER -> \A c \in DOMAIN s.map : s.map[c] \in names

\* check_strategy_fit pairing columns with a sequence by zip, without
\* comparing the lengths first: the surplus of the longer one is dropped.
check_strategy_fit_zip(s, cols) ==
    LET len == IF s.kind = "seq" /\ Len(s.names) < Len(cols)
               THEN Len(s.names) ELSE Len(cols)
    IN  IF \E c \in DOMAIN s.map : \A i \in 1..Len(cols) : cols[i] # c
        THEN [err |-> "InvalidStrategy", strats |-> <<>>]
        ELSE [err |-> "ok",
              strats |-> [i \in 1..len |->
                            [column |-> cols[i],
                             method |-> CASE s.kind = "str" -> s.name
                                          [] s.kind = "seq" -> s.names[i]
                                          [] OTHER -> IF cols[i] \in DOMAIN s.map
                                                      THEN s.map[cols[i]]
                                                      ELSE "default"]]]

\* BaseImputer.check_strategy_fit(s, cols): the Column Strategy Map, as the
\* sequence of its (column, method) items in the order of cols.
check_strategy_fit(s, cols) ==
    CASE s.kind = "str" ->
           [err |-> "ok",
            strats |-> [i \in 1..Len(cols) |-> [column |-> cols[i], method |-> s.name]]]
      [] s.kind = "seq" ->
           IF Len(s.names) # Len(cols)
           THEN [err |-> "StrategyColumnMismatch", strats |-> <<>>]
           ELSE [err |-> "ok",
                 strats |-> [i \in 1..Len(cols) |->
                               [column |-> cols[i], method |-> s.names[i]]]]
      [] OTHER ->
           IF \E c \in DOMAIN s.map : \A i \in 1..Len(cols) : cols[i] # c
           THEN [err |-> "InvalidStrategy", strats |-> <<>>]
           ELSE [err |-> "ok",
                 strats |-> [i \in 1..Len(cols) |->
                               [column |-> cols[i],
                                method |-> IF cols[i] \in DOMAIN s.map
                                           THEN s.map[cols[i]] ELSE "default"]]]

\* SingleImputer._fit_strategy_validator(X): only the column names of X
\* reach the resolver.
fit_strategy_validator(s, X) == check_strategy_fit(s, ColNames(X))

\* ------------------------------------------------- keyword arguments --
\* imp_kwgs maps column or strategy names to constructor arguments, here
\* "good" (accepted by the imputer's __init__) or "bad" (a TypeError).
NoKwgs == <<>>
BadKwgs == [k \in {"A", "mean"} |-> IF k = "A" THEN "good" ELSE "bad"]
KwgsChoices ==
    {NoKwgs, BadKwgs}

\* BaseImputer._fit_init_params(column, method, imp_kwgs): "none" stands
\* for None.
fit_init_params(column, method, kwgs) ==
    IF column \in DOMAIN kwgs THEN kwgs[column]
    ELSE IF method \in DOMAIN kwgs THEN kwgs[method]
    ELSE "none"

\* ------------------------------------------------- series imputers --
\* The observed (non-missing) cells of a column, in row order.
RECURSIVE ObservedFrom(_, _)
ObservedFrom(vals, i) ==
    IF i > Len(vals) THEN <<>>
    ELSE IF IsNull(vals[i]) THEN ObservedFrom(vals, i + 1)
    ELSE <<vals[i]>> \o ObservedFrom(vals, i + 1)

Observed(col) == ObservedFrom(col.vals, 1)
ObservedSet(col) == {col.vals[i] : i \in {j \in DOMAIN col.vals : ~IsNull(col.vals[j])}}

Add(a, b) == NumCell(a.n * b.d + b.n * a.d, a.d * b.d)
Less(a, b) == a.n * b.d < b.n * a.d
Halve(a) == NumCell(a.n, 2 * a.d)

RECURSIVE Sum(_)
Sum(q) == IF q = <<>> THEN NumCell(0, 1) ELSE Add(Head(q), Sum(Tail(q)))

Mean(q) == LET t == Sum(q) IN NumCell(t.n, t.d * Len(q))

\* q without its first occurrence of v.
RECURSIVE RemoveOne(_, _)
RemoveOne(q, v) ==
    IF q = <<>> THEN <<>>
    ELSE IF Head(q) = v THEN Tail(q)
    ELSE <<Head(q)>> \o RemoveOne(Tail(q), v)

SeqSet(q) == {q[i] : i \in DOMAIN q}
MinOf(q) == CHOOSE v \in SeqSet(q) : \A w \in SeqSet(q) : ~Less(w, v)
MaxOf(q) == CHOOSE v \in SeqSet(q) : \A w \in SeqSet(q) : ~Less(v, w)

RECURSIVE Median(_)
Median(q) ==
    IF Len(q) <= 2 THEN Mean(q)
    ELSE Median(RemoveOne(RemoveOne(q, MinOf(q)), MaxOf(q)))

Count(q, v) == Cardinality({i \in DOMAIN q : q[i] = v})
Modes(q) == {v \in SeqSet(q) : \A w \in SeqSet(q) : Count(q, w) <= Count(q, v)}

\* An imputer instance: cls is the registry name of its class; strategy is
\* statistics_["strategy"] ("None" for None); has_param tells whether
\* statistics_["param"] is not None; fills are the values its fitted state
\* can fill a missing position with.
Imputer(cls, strategy, has_param, fills) ==
    [cls |-> cls, strategy |-> strategy, has_param |-> has_param, fills |-> fills]

\* What a series imputer's fit caches (spec 4.5, "inductive vs
\* transductive"): interpolation caches nothing.
FitStatistic(method, col) ==
    CASE method = "mean" -> {Mean(Observed(col))}
      [] method = "median" -> {Median(Observed(col))}
      [] method = "mode" -> Modes(Observed(col))
      [] method = "random" -> ObservedSet(col)
      [] method = "categorical" -> ObservedSet(col)
      [] method = "norm" ->
           {Mean(Observed(col)), Add(Mean(Observed(col)), NumCell(1, 1))}
      [] OTHER -> {}

\* fit of a series imputer (imputer contract, spec 6): the column's data
\* type is seen here for the first time in a fit call.
SeriesFit(method, col) ==
    IF ~Compatible(method, col.dtype)
    THEN [err |-> "StrategyDataTypeMismatch", imputer |-> Imputer(method, method, FALSE, {})]
    ELSE [err |-> "ok",
          imputer |-> Imputer(method, method, method # "interpolate",
                              FitStatistic(method, col))]

\* The positions of the missing cells of a column, in row order:
\* X[column][X[column].isnull()].index.tolist()
RECURSIVE NullIndexFrom(_, _)
NullIndexFrom(vals, i) ==
    IF i > Len(vals) THEN <<>>
    ELSE IF IsNull(vals[i]) THEN <<i>> \o NullIndexFrom(vals, i + 1)
    ELSE NullIndexFrom(vals, i + 1)

NullIndex(col) == NullIndexFrom(col.vals, 1)

\* Linear interpolation at position i from the data passed to transform:
\* between the nearest observed neighbours, or the nearest one at an edge.
Interpolated(vals, i) ==
    LET before == {j \in DOMAIN vals : j < i /\ ~IsNull(vals[j])}
        after  == {j \in DOMAIN vals : j > i /\ ~IsNull(vals[j])}
        lo == CHOOSE j \in before : \A m \in before : m <= j
        hi == CHOOSE j \in after : \A m \in after : j <= m
    IN  IF before = {} THEN vals[hi]
        ELSE IF after = {} THEN vals[lo]
        ELSE Halve(Add(vals[lo], vals[hi]))

\* impute of a series imputer (imputer contract, spec 6): the possible
\* results, each a value for exactly the missing positions.
SeriesImpute(imputer, col) ==
    LET ix == SeqSet(NullIndex(col))
    IN  IF imputer.cls = "interpolate"
        THEN {[i \in ix |-> Interpolated(col.vals, i)]}
        ELSE [ix -> imputer.fills]

\* ------------------------------------------- DefaultSingleImputer --
\* pandas.api.types.is_numeric_dtype / is_string_dtype
is_numeric_dtype(col) == col.dtype = "num"
is_string_dtype(col) == col.dtype = "str"

\* DefaultSingleImputer.__init__: num_imputer=MeanImputer,
\* cat_imputer=ModeImputer.
num_imputer == "mean"
cat_imputer == "mode"

\* DefaultBaseImputer.fit: statistics_ = {"param": the fitted sub-imputer,
\* "strategy": its strategy}, or {None, None}.
DefaultFit(col) ==
    IF is_numeric_dtype(col)
    THEN [err |-> "ok",
          imputer |-> Imputer("default", num_imputer, TRUE,
                              SeriesFit(num_imputer, col).imputer.fills)]
    ELSE IF is_string_dtype(col)
    THEN [err |-> "ok",
          imputer |-> Imputer("default", cat_imputer, TRUE,
                              SeriesFit(cat_imputer, col).imputer.fills)]
    ELSE [err |-> "ok", imputer |-> Imputer("default", "None", FALSE, {})]

\* The methods an imputer class defines: DefaultSingleImputer defines fit
\* and transform and inherits no impute.
HasImpute(imputer) == imputer.cls # "default"

\* imputer.fit(X[column]) for the imputer registered under method.
ImputerFit(method, col) ==
    IF strategies[method] = "DefaultSingleImputer" THEN DefaultFit(col)
    ELSE SeriesFit(method, col)

\* The columns handed to a DefaultSingleImputer used on its own: one more
\* numeric value and one more text than in the orchestrator's tables, and
\* again at least one observed value.
SeriesCellsOf(dtype) ==
    CASE dtype = "num" -> {NumCell(i, 1) : i \in 1..(MaxNum + 1)}
      [] dtype = "str" -> {StrCell("x"), StrCell("y")}
      [] OTHER -> {TimeCell("t")}

Series ==
    UNION { { [name |-> Names[1], dtype |-> dt, vals |-> v] :
                v \in { w \in [RowIx -> SeriesCellsOf(dt) \cup {NA}] :
                          \E i \in RowIx : ~IsNull(w[i]) } } :
            dt \in Dtypes }
NoSeries == [name |-> "", dtype |-> "none", vals |-> <<>>]

\* transform of a series imputer (spec 4.5, "delegate the transform call";
\* spec 6, fit_transform(column) -> column'): the possible results, each a
\* new column with the missing positions filled; the column passed is left
\* as it was.
SeriesTransform(imputer, col) ==
    IF ~Compatible(imputer.cls, col.dtype)
    THEN {[err |-> "StrategyDataTypeMismatch", col |-> NoSeries]}
    ELSE { [err |-> "ok",
            col |-> [col EXCEPT !.vals =
                        [i \in DOMAIN col.vals |->
                            IF i \in DOMAIN v THEN v[i] ELSE col.vals[i]]]] :
           v \in SeriesImpute(imputer, col) }

\* statistics_["param"] of a fitted DefaultSingleImputer: the sub-imputer
\* chosen at fit, itself fitted.
Param(imputer) == Imputer(imputer.strategy, imputer.strategy, TRUE, imputer.fills)

\* A DefaultSingleImputer on its own: has tells whether the attribute
\* statistics_ exists, imputer is its content.
Unfitted == [has |-> FALSE, imputer |-> Imputer("default", "None", FALSE, {})]

\* DefaultBaseImputer.transform(X) on the engine e: each outcome holds the
\* column returned (ret), the sub-imputer the call was delegated to
\* ("None" when none) and what that sub-imputer returned (sub_ret).
DefaultTransform(e, X) ==
    IF ~e.has
    THEN {[err |-> "NotFittedError", ret |-> NoSeries, delegate |-> "None",
           sub_ret |-> NoSeries]}
    ELSE IF e.imputer.has_param
    THEN { IF o.err # "ok"
           THEN [err |-> o.err, ret |-> NoSeries,
                 delegate |-> e.imputer.strategy, sub_ret |-> NoSeries]
           ELSE [err |-> "ok", ret |-> X,
                 delegate |-> e.imputer.strategy, sub_ret |-> o.col] :
           o \in SeriesTransform(Param(e.imputer), X) }
    ELSE {[err |-> "ok", ret |-> X, delegate |-> "None", sub_ret |-> NoSeries]}

\* ------------------------------------------------------------ state --
VARIABLES
    strategy,        \* self.strategy, fixed at construction
    copy,            \* self.copy
    imp_kwgs,        \* self.imp_kwgs
    strats,          \* self._strats: sequence of [column, method]
    statistics_,     \* self.statistics_: sequence of [column, imputer]
    has_statistics,  \* whether the attribute statistics_ exists
    imputed_,        \* self.imputed_: sequence of [column, ix]
    has_imputed,     \* whether the attribute imputed_ exists
    ever_fit_ok,     \* history: some fit call has returned normally
    call,            \* the last call: its argument, outcome and tables
    engine,          \* a DefaultSingleImputer used on its own
    dcall            \* the last call made on engine

vars == <<strategy, copy, imp_kwgs, strats, statistics_, has_statistics,
          imputed_, has_imputed, ever_fit_ok, call, engine, dcall>>

config == <<strategy, copy, imp_kwgs>>

\* The stand-alone engine and its last call.
standalone == <<engine, dcall>>

\* op: the operation called on the engine; err: "ok" or the error raised;
\* arg: the column passed; ret: the column returned; delegate: the strategy
\* of the sub-imputer transform was handed to ("None" when none); sub_ret:
\* the column that sub-imputer returned.
DCall(op, err, arg, ret, delegate, sub_ret) ==
    [op |-> op, err |-> err, arg |-> arg, ret |-> ret, delegate |-> delegate,
     sub_ret |-> sub_ret]

NoDCall == DCall("none", "ok", NoSeries, NoSeries, "None", NoSeries)

NoTable == <<>>

\* op: the operation called; err: "ok" or the error raised; phase: where a
\* fit ended ("resolve", "loop", "done"); arg: the table as passed; X: the
\* caller's table after the call; ret: the table returned (NoTable when
\* none); same_object: ret is the caller's table itself; from_output: arg
\* was the table returned by the previous transform.
Call(op, err, phase, arg, X, ret, same_object, from_output) ==
    [op |-> op, err |-> err, phase |-> phase, arg |-> arg, X |-> X, ret |-> ret,
     same_object |-> same_object, from_output |-> from_output]

\* SingleImputer.__init__: the strategy setter rejects a specification that
\* names an unregistered strategy, so no such orchestrator exists.
Init ==
    /\ strategy \in {s \in Specs : check_strategy_allowed(strat_names, s)}
    /\ copy \in BOOLEAN
    /\ imp_kwgs \in KwgsChoices
    /\ strats = <<>>
    /\ statistics_ = <<>>
    /\ has_statistics = FALSE
    /\ imputed_ = <<>>
    /\ has_imputed = FALSE
    /\ ever_fit_ok = FALSE
    /\ call = Call("none", "ok", "done", NoTable, NoTable, NoTable, FALSE, FALSE)
    /\ engine = Unfitted
    /\ dcall = NoDCall

\* -------------------------------------------------------------- fit --
\* The loop of fit over self._strats.items(), from item i on: construct the
\* imputer, fit it on X[column], store it.  A failure ends the loop with
\* what has been stored so far.
RECURSIVE FitLoop(_, _, _, _, _)
FitLoop(strats_, i, X, kwgs, stats) ==
    IF i > Len(strats_) THEN [err |-> "ok", stats |-> stats]
    ELSE LET column == strats_[i].column
             method == strats_[i].method
             imp_params == fit_init_params(column, method, kwgs)
         IN  IF imp_params = "bad"
             THEN [err |-> "ImputerConstructionError", stats |-> stats]
             ELSE LET r == ImputerFit(method, Col(X, column))
                  IN  IF r.err # "ok" THEN [err |-> r.err, stats |-> stats]
                      ELSE FitLoop(strats_, i + 1, X, kwgs,
                                   Append(stats, [column |-> column,
                                                  imputer |-> r.imputer]))

\* fit undoing its work when the loop fails: the map and the store are put
\* back as they were before the call.
DoFitRollback(st, s, kwgs, X) ==
    LET r == fit_strategy_validator(s, X)
        l == FitLoop(r.strats, 1, X, kwgs, <<>>)
    IN  IF r.err # "ok"
        THEN [err |-> r.err, phase |-> "resolve", strats |-> st.strats,
              stats |-> st.stats, has |-> st.has]
        ELSE IF l.err # "ok"
        THEN [err |-> l.err, phase |-> "loop", strats |-> st.strats,
              stats |-> st.stats, has |-> st.has]
        ELSE [err |-> "ok", phase |-> "done", strats |-> r.strats,
              stats |-> l.stats, has |-> TRUE]

\* SingleImputer.fit(X) on an orchestrator whose fitted attributes are st.
DoFit(st, s, kwgs, X) ==
    LET r == fit_strategy_validator(s, X)
    IN  IF r.err # "ok"
        THEN [err |-> r.err, phase |-> "resolve", strats |-> st.strats,
              stats |-> st.stats, has |-> st.has]
        ELSE LET l == FitLoop(r.strats, 1, X, kwgs, <<>>)
             IN  [err |-> l.err, phase |-> IF l.err = "ok" THEN "done" ELSE "loop",
                  strats |-> r.strats, stats |-> l.stats, has |-> TRUE]

Fitted == [strats |-> strats, stats |-> statistics_, has |-> has_statistics]

\* A call is made once the caller has let go of the previous call's tables.
Idle == call.op = "none"

Fit(T) ==
    LET f == DoFit(Fitted, strategy, imp_kwgs, T)
    IN  /\ Idle
        /\ strats' = f.strats
        /\ statistics_' = f.stats
        /\ has_statistics' = f.has
        /\ ever_fit_ok' = (ever_fit_ok \/ f.err = "ok")
        /\ call' = Call("fit", f.err, f.phase, T, T, NoTable, FALSE, FALSE)
        /\ UNCHANGED <<config, imputed_, has_imputed, standalone>>

\* -------------------------------------------------------- transform --
\* sklearn's check_is_fitted(self, "statistics_"): the attribute exists.
check_is_fitted(has) == has

\* SingleImputer._transform_strategy_validator(X)
transform_strategy_validator(has, strats_, X) ==
    IF ~check_is_fitted(has) THEN "NotFittedError"
    ELSE LET fit_cols == {strats_[i].column : i \in DOMAIN strats_}
             diff_fit == fit_cols \ ColNameSet(X)
         IN  IF diff_fit # {} THEN "ColumnMismatchError" ELSE "ok"

\* X[column] = vals: the assignment of the whole column, which leaves
\* missing every position vals has no value for.
ColAssign(X, imp_ix, column, vals) ==
    [c \in DOMAIN X |->
        IF X[c].name # column THEN X[c]
        ELSE [X[c] EXCEPT !.vals =
                [i \in DOMAIN X[c].vals |->
                    IF i \in SeqSet(imp_ix) THEN vals[i] ELSE NA]]]

\* X.iloc[imp_ix, column] = vals with positions counted from 0 where the
\* labels count from 1: each value lands one row further (the last wraps).
LocAssignOffByOne(X, imp_ix, column, vals) ==
    [c \in DOMAIN X |->
        IF X[c].name # column THEN X[c]
        ELSE [X[c] EXCEPT !.vals =
                [i \in DOMAIN X[c].vals |->
                    LET from == {j \in SeqSet(imp_ix) : (j % Len(X[c].vals)) + 1 = i}
                    IN  IF from # {} THEN vals[CHOOSE j \in from : TRUE]
                        ELSE X[c].vals[i]]]]

\* X.loc[imp_ix, column] = vals
LocAssign(X, imp_ix, column, vals) ==
    [c \in DOMAIN X |->
        IF X[c].name # column THEN X[c]
        ELSE [X[c] EXCEPT !.vals =
                [i \in DOMAIN X[c].vals |->
                    IF i \in SeqSet(imp_ix) THEN vals[i] ELSE X[c].vals[i]]]]

\* transform without the reset of self.imputed_: the record of the earlier
\* call is kept and appended to.
KeepImputed(old) == old

\* self.imputed_ = {} at the head of the transformation logic.
NewImputed(old) == <<>>

\* The loop of transform over self.statistics_.items(), from item i on: the
\* set of its possible outcomes (several when an imputer draws at random).
RECURSIVE TransformLoop(_, _, _, _)
TransformLoop(stats, i, X, imputed) ==
    IF i > Len(stats) THEN {[err |-> "ok", X |-> X, imputed |-> imputed]}
    ELSE LET column == stats[i].column
             imputer == stats[i].imputer
             imp_ix == NullIndex(Col(X, column))
             rec == Append(imputed, [column |-> column, ix |-> imp_ix])
         IN  IF imp_ix = <<>> THEN TransformLoop(stats, i + 1, X, rec)
             ELSE IF ~HasImpute(imputer)
             THEN {[err |-> "AttributeError", X |-> X, imputed |-> rec]}
             ELSE UNION { TransformLoop(stats, i + 1,
                                        LocAssign(X, imp_ix, column, vals), rec) :
                          vals \in SeriesImpute(imputer, Col(X, column)) }

\* SingleImputer.transform on the table X it works on (the caller's table
\* or its copy), for an orchestrator whose attributes are st.
DoTransform(st, X) ==
    LET v == transform_strategy_validator(st.has, st.strats, X)
    IN  IF v # "ok"
        THEN {[err |-> v, X |-> X, imputed |-> st.imputed, has_imputed |-> st.has_imputed]}
        ELSE { [err |-> o.err, X |-> o.X, imputed |-> o.imputed, has_imputed |-> TRUE] :
               o \in TransformLoop(st.stats, 1, X, NewImputed(st.imputed)) }

\* transform without the copy: it always works on the caller's table.
WorkObjectInPlace(copy_flag) == "caller"

\* if self.copy: X = X.copy() -- the object transform works on and returns:
\* a copy of the caller's table, or the caller's table itself.
WorkObject(copy_flag) == IF copy_flag THEN "copy" ELSE "caller"

\* The caller's table after the call, given the table the call worked on.
CallerTable(obj, T, work) == IF obj = "caller" THEN work ELSE T

Self ==
    [strats |-> strats, stats |-> statistics_, has |-> has_statistics,
     imputed |-> imputed_, has_imputed |-> has_imputed]

\* transform(T) on an orchestrator whose attributes are st, recorded as a
\* call of op.
TransformCall(st, op, T, from_output) ==
    \E o \in DoTransform(st, T) :
        /\ imputed_' = o.imputed
        /\ has_imputed' = o.has_imputed
        /\ call' = Call(op, o.err, "done", T,
                        CallerTable(WorkObject(copy), T, o.X),
                        IF o.err = "ok" THEN o.X ELSE NoTable,
                        o.err = "ok" /\ WorkObject(copy) = "caller",
                        from_output)

Transform(T) ==
    /\ Idle
    /\ TransformCall(Self, "transform", T, FALSE)
    /\ UNCHANGED <<config, strats, statistics_, has_statistics, ever_fit_ok,
                   standalone>>

\* transform applied to the table the previous transform returned.
TransformOutput ==
    /\ call.op \in {"transform", "fit_transform"}
    /\ call.err = "ok"
    /\ TransformCall(Self, "transform", call.ret, TRUE)
    /\ UNCHANGED <<config, strats, statistics_, has_statistics, ever_fit_ok,
                   standalone>>

\* TransformerMixin.fit_transform(X): self.fit(X).transform(X).
FitTransform(T) ==
    LET f == DoFit(Fitted, strategy, imp_kwgs, T)
        st == [strats |-> f.strats, stats |-> f.stats, has |-> f.has,
               imputed |-> imputed_, has_imputed |-> has_imputed]
    IN  /\ Idle
        /\ strats' = f.strats
        /\ statistics_' = f.stats
        /\ has_statistics' = f.has
        /\ ever_fit_ok' = (ever_fit_ok \/ f.err = "ok")
        /\ UNCHANGED <<config, standalone>>
        /\ IF f.err # "ok"
           THEN /\ call' = Call("fit_transform", f.err, f.phase, T, T, NoTable,
                                FALSE, FALSE)
                /\ UNCHANGED <<imputed_, has_imputed>>
           ELSE TransformCall(st, "fit_transform", T, FALSE)

\* The caller lets go of the tables of the last call; the orchestrator
\* keeps its attributes.
Release ==
    /\ ~Idle
    /\ call' = Call("none", "ok", "done", NoTable, NoTable, NoTable, FALSE, FALSE)
    /\ UNCHANGED <<config, strats, statistics_, has_statistics, imputed_,
                   has_imputed, ever_fit_ok, standalone>>

Next ==
    \/ \E T \in Tables : Fit(T)
    \/ \E T \in Tables : Transform(T)
    \/ \E T \in Tables : FitTransform(T)
    \/ TransformOutput
    \/ Release

Spec == Init /\ [][Next]_vars

\* ------------------------------- DefaultSingleImputer on its own --
\* "It is a stand-alone class and valid sklearn transformer": fit,
\* transform and fit_transform called directly on one engine, the
\* orchestrator left as constructed.
orchestrator == <<config, strats, statistics_, has_statistics, imputed_,
                  has_imputed, ever_fit_ok, call>>

DefaultInit ==
    /\ Init
    /\ strategy = StrSpec("default")
    /\ copy = TRUE
    /\ imp_kwgs = NoKwgs

\* DefaultSingleImputer.fit(X)
EngineFit(c) ==
    LET f == DefaultFit(c)
    IN  /\ engine' = [has |-> TRUE, imputer |-> f.imputer]
        /\ dcall' = DCall("fit", f.err, c, NoSeries, "None", NoSeries)
        /\ UNCHANGED orchestrator

\* DefaultSingleImputer.transform(X)
EngineTransform(c) ==
    /\ \E o \in DefaultTransform(engine, c) :
           dcall' = DCall("transform", o.err, c, o.ret, o.delegate, o.sub_ret)
    /\ UNCHANGED <<engine, orchestrator>>

\* TransformerMixin.fit_transform(X): self.fit(X).transform(X)
EngineFitTransform(c) ==
    LET f == DefaultFit(c)
        e == [has |-> TRUE, imputer |-> f.imputer]
    IN  /\ engine' = e
        /\ \E o \in DefaultTransform(e, c) :
               dcall' = DCall("fit_transform", o.err, c, o.ret, o.delegate,
                              o.sub_ret)
        /\ UNCHANGED orchestrator

DefaultNext ==
    \/ \E c \in Series : EngineFit(c)
    \/ \E c \in Series : EngineTransform(c)
    \/ \E c \in Series : EngineFitTransform(c)

DefaultSpec == DefaultInit /\ [][DefaultNext]_vars

\* ------------------------------------------------------- properties --
\* The last call ran fit (alone or as the first half of fit_transform).
FitRan == call.op \in {"fit", "fit_transform"}
\* The last call ran the body of transform.
TransformRan ==
    \/ call.op = "transform"
    \/ call.op = "fit_transform" /\ call.phase = "done"
TransformOk == TransformRan /\ call.err = "ok"

\* The stored state is that of a fit call that completed.
FullyFitted == has_statistics /\ Len(statistics_) = Len(strats)
StoreColumns == {statistics_[i].column : i \in DOMAIN statistics_}
FitColumns == {strats[i].column : i \in DOMAIN strats}
Missing(col) == {i \in DOMAIN col.vals : IsNull(col.vals[i])}
Method(column) == strats[CHOOSE i \in DOMAIN strats : strats[i].column = column].method

\* C1: transform fails with NotFittedError whenever no earlier fit call on
\* the orchestrator has completed successfully (a fresh orchestrator, or one
\* whose every fit call failed).
C1_NotFittedWithoutSuccessfulFit ==
    (call.op = "transform" /\ ~ever_fit_ok) => call.err = "NotFittedError"

\* C2: for every registry strategy (default included), after fit on a table
\* and transform of that table, every column whose data type is compatible
\* with its assigned strategy holds no missing value in the output.
C2_NoMissingAfterFitTransform ==
    (call.op = "fit_transform" /\ call.phase = "done") =>
        /\ call.err = "ok"
        /\ \A c \in DOMAIN call.arg :
              Compatible(Method(call.arg[c].name), call.arg[c].dtype)
                 => Missing(Col(call.ret, call.arg[c].name)) = {}

C4_OnlyMissingStoredCellsChange ==
    TransformOk =>
        /\ Len(call.ret) = Len(call.arg)
        /\ \A c \in DOMAIN call.arg :
              /\ call.ret[c].name = call.arg[c].name
              /\ call.ret[c].dtype = call.arg[c].dtype
              /\ \A i \in DOMAIN call.arg[c].vals :
                    (call.arg[c].name \notin StoreColumns \/ ~IsNull(call.arg[c].vals[i]))
                       => call.ret[c].vals[i] = call.arg[c].vals[i]

C4_Witness ==
    /\ TransformOk
    /\ \E c \in DOMAIN call.arg :
          /\ call.arg[c].name \in StoreColumns
          /\ \E i, j \in DOMAIN call.arg[c].vals :
                /\ IsNull(call.arg[c].vals[i]) /\ ~IsNull(call.ret[c].vals[i])
                /\ ~IsNull(call.arg[c].vals[j])
    /\ \E c \in DOMAIN call.arg :
          /\ call.arg[c].name \notin StoreColumns
          /\ Missing(call.ret[c]) # {}

\* C5: the Column Strategy Map of fit has an entry for every column of the
\* fitted table; a single name is assigned to every column, and under a
\* mapping every column not named as a key gets the default strategy, so
\* that (numeric or textual) column is fitted and imputed by default
\* delegation, not skipped or rejected.
C5_MapCoversEveryColumn ==
    /\ (FitRan /\ call.phase # "resolve") =>
          /\ Len(strats) = Len(call.arg)
          /\ \A i \in DOMAIN strats :
                /\ strats[i].column = call.arg[i].name
                /\ strategy.kind = "str" => strats[i].method = strategy.name
                /\ (strategy.kind = "map" /\ strats[i].column \notin DOMAIN strategy.map)
                      => strats[i].method = "default"
    /\ (call.op = "fit_transform" /\ call.phase = "done" /\ strategy.kind = "map") =>
          \A c \in DOMAIN call.arg :
              (call.arg[c].name \notin DOMAIN strategy.map
                 /\ call.arg[c].dtype \in {"num", "str"})
              => /\ call.err = "ok"
                 /\ call.arg[c].name \in StoreColumns
                 /\ Missing(Col(call.ret, call.arg[c].name)) = {}

\* C6: fit always fails with StrategyDataTypeMismatch when the resolved
\* Column Strategy Map assigns a numeric-only strategy to a non-numeric
\* column, and the failure is raised by strategy resolution, before any
\* imputer is constructed or stored.
C6_MismatchRaisedByResolution ==
    LET r == check_strategy_fit(strategy, ColNames(call.arg))
    IN  (/\ FitRan
         /\ r.err = "ok"
         /\ \E i \in DOMAIN r.strats :
               r.strats[i].method \in NumericOnly /\ call.arg[i].dtype # "num")
        => (call.err = "StrategyDataTypeMismatch" /\ call.phase = "resolve")

\* C7: after a successful fit on columns F, transform on a table lacking a
\* column of F fails with ColumnMismatchError (columns beyond F are
\* permitted), and transform on a table holding every column of F succeeds.
C7_ColumnMismatchThenSuccess ==
    (call.op = "transform" /\ FullyFitted) =>
        IF FitColumns \subseteq ColNameSet(call.arg)
        THEN call.err = "ok"
        ELSE call.err = "ColumnMismatchError"

\* C8: with an ordered-sequence specification, fit on a table whose column
\* count differs from the sequence length always fails with
\* StrategyColumnMismatch, whatever names the sequence holds.
C8_SequenceLengthMismatch ==
    (FitRan /\ strategy.kind = "seq" /\ Len(strategy.names) # Len(call.arg))
        => (call.err = "StrategyColumnMismatch" /\ call.phase = "resolve")

C8_Witness ==
    /\ FitRan
    /\ strategy.kind = "seq"
    /\ Len(strategy.names) > Len(call.arg)
    /\ \E i, j \in DOMAIN strategy.names : strategy.names[i] # strategy.names[j]
    /\ call.err = "StrategyColumnMismatch"

\* C9: with the copy flag true, transform leaves the caller's table as it
\* was and returns a separate, imputed table; with the flag false it writes
\* the imputed values into the caller's table and returns that table.
C9_CopyPolicy ==
    TransformOk =>
        IF copy
        THEN call.X = call.arg /\ ~call.same_object
        ELSE call.X = call.ret /\ call.same_object

\* An in-place transform that filled a missing cell of the caller's table.
C9_Witness ==
    /\ TransformOk
    /\ ~copy
    /\ call.ret # call.arg
    /\ call.X # call.arg
    /\ call.same_object

\* C10: with the fitted state unchanged, transform applied to the output of
\* a previous transform returns a table equal to that output and records an
\* empty Imputed-Index list for every column.
C10_TransformIdempotent ==
    (call.op = "transform" /\ call.from_output) =>
        /\ call.err = "ok"
        /\ call.ret = call.arg
        /\ Len(imputed_) = Len(statistics_)
        /\ \A i \in DOMAIN imputed_ : imputed_[i].ix = <<>>

\* The table passed holds a value no input table holds: an imputed one.
C10_Witness ==
    /\ call.op = "transform"
    /\ call.from_output
    /\ call.err = "ok"
    /\ \E c \in DOMAIN call.arg : \E i \in DOMAIN call.arg[c].vals :
          /\ call.arg[c].name \in StoreColumns
          /\ call.arg[c].vals[i] \notin CellsOf(call.arg[c].dtype)

\* C11: a successful fit call on an already fitted (or transformed)
\* orchestrator leaves nothing from before: the Column Strategy Map and the
\* Statistics Store hold exactly the columns of this call's table, and the
\* Imputed-Index Record of earlier transform calls is discarded.
C11_RefitDiscardsEverything ==
    (call.op = "fit" /\ call.err = "ok") =>
        /\ Len(strats) = Len(call.arg)
        /\ Len(statistics_) = Len(call.arg)
        /\ \A i \in DOMAIN call.arg :
              /\ strats[i].column = call.arg[i].name
              /\ statistics_[i].column = call.arg[i].name
        /\ has_imputed => imputed_ = <<>>

\* The iteration of the last fit call over item i of the Column Strategy
\* Map fails: the imputer cannot be constructed, or its fit raises.
IterationFails(i) ==
    LET column == strats[i].column
        method == strats[i].method
    IN  \/ fit_init_params(column, method, imp_kwgs) = "bad"
        \/ ImputerFit(method, Col(call.arg, column)).err # "ok"

\* C12: when fit fails while constructing or fitting the imputer of some
\* column, nothing is rolled back: the Statistics Store holds exactly the
\* fitted imputers of the columns whose iterations completed earlier in the
\* same call, and no entry for the failing column or a column not reached.
C12_PartialStoreOnFitFailure ==
    (FitRan /\ call.phase = "loop") =>
        LET k == Len(statistics_) + 1
        IN  /\ has_statistics
            /\ call.err \in {"ImputerConstructionError", "StrategyDataTypeMismatch"}
            /\ k <= Len(strats)
            /\ IterationFails(k)
            /\ \A i \in 1..(k - 1) :
                  /\ ~IterationFails(i)
                  /\ statistics_[i] =
                        [column |-> strats[i].column,
                         imputer |-> ImputerFit(strats[i].method,
                                                Col(call.arg, strats[i].column)).imputer]
            /\ \A i \in k..Len(strats) : strats[i].column \notin StoreColumns

\* A fit call that failed at its second column after storing the first.
C12_Witness ==
    /\ FitRan
    /\ call.phase = "loop"
    /\ Len(statistics_) >= 1
    /\ Len(statistics_) < Len(call.arg)

\* The last call on the engine ran the body of its transform.
EngineTransformRan == dcall.op \in {"transform", "fit_transform"}

====
